---- MODULE Spec2Model ----
(***************************************************************************)
(* Inventory / sales-order backend: the relational store behind            *)
(* DatabaseStorage (src/storage.ts), the zod insert schemas                *)
(* (src/schema.ts) and the REST routes that call them                      *)
(* (src/unnamed/part_001, the route registration file).                    *)
(*                                                                         *)
(* Tables with a serial id and no hard delete (products, partner tables,   *)
(* invoice templates, approval requests) are sequences: the row with id i  *)
(* is element i.  Purchases and sales are hard-deleted, so each is a       *)
(* function from the ids of the existing rows, beside the last id its      *)
(* sequence handed out.                                                    *)
(*                                                                         *)
(* Every `await db....` is one statement of the store and therefore one    *)
(* atomic step.  The sequential specifications run a handler to completion *)
(* in one action; the concurrent ones run it one store statement at a      *)
(* time, through the same operators.                                       *)
(***************************************************************************)
EXTENDS Integers, Sequences, FiniteSets, TLC

VARIABLES
    products,       \* products table: <<[stock, minStock, isActive]>>,
                    \*        id = index
    initialStock,   \* ghost: the stock each product was created with
    netDelta,       \* ghost: per product, the sum of the deltas of every
                    \*        line-item walk started so far (concurrent runs)
    purchases,      \* purchases table: id -> [items]
    purchaseSeq,    \* last id of purchases_id_seq
    sales,          \* sales table: id -> [items]
    saleSeq,        \* last id of sales_id_seq
    templates,      \* invoice_templates table: <<[isDefault]>>
    partners,       \* table name -> <<[name, isApproved, isActive]>>
    requests,       \* approval_requests table: <<[entityType, entityId, status]>>
    users,          \* users table: <<[username, isActive]>>
    procs,          \* requests in flight (concurrent specifications)
    resp            \* the last finished call: what it was and what it answered

vars == <<products, initialStock, netDelta, purchases, purchaseSeq, sales,
          saleSeq, templates, partners, requests, users, procs, resp>>

stockVars    == <<products, initialStock, netDelta, purchases, purchaseSeq,
                  sales, saleSeq>>
templateVars == <<templates>>
approvalVars == <<partners, requests>>

----------------------------------------------------------------------------
(* Bounds of the model *)

MaxProducts == 2    \* products ever created
MaxItems == 2       \* line items of one transaction
MaxTx == 2          \* purchases and sales ever created (SpecLedger)
MaxWildTx == 1      \* the same, where line items are arbitrary JSON
MaxTemplates == 3   \* invoice templates ever created
MaxPartners == 2    \* partner entities ever created, over all five tables
MaxProcs == 2       \* requests in flight at once (concurrent specifications)
MaxRequests == 2    \* approval requests created by direct storage calls
MaxStoredRows == 2  \* rows ever created, over all tables (SpecAbsent)
MaxStock == 4       \* stock above which updateProductStock is not called
                    \*   directly any more (SpecAbsent)

\* Input values
StockValues == {0, 3}
Quantities == {-1, 0, 2}
PositiveQuantities == {q \in Quantities : q > 0}

----------------------------------------------------------------------------
(* JSON bodies and partial updates *)

\* A request body or a Partial<Insert...> is a record over some of the
\* column names.
EmptyPatch == [f \in {} |-> FALSE]

\* zod's object parse keeps the keys of the schema and strips the others;
\* `omitted` are the columns createInsertSchema(...).omit({...}) removed.
SchemaParse(body, omitted) ==
    [f \in (DOMAIN body) \ omitted |-> body[f]]

\* db.update(t).set({...patch, updatedAt}) on one row: the columns the patch
\* names are overwritten, the others kept.
SetColumns(row, patch) ==
    [f \in DOMAIN row |-> IF f \in DOMAIN patch THEN patch[f] ELSE row[f]]

\* JavaScript truthiness of a number-valued JSON field (0 is falsy).
Truthy(n) == n # 0

Notes(type, action) == <<[type |-> type, action |-> action]>>
NoNotes == <<>>

Answer(op, status, note) ==
    [op |-> op, status |-> status, note |-> note]

----------------------------------------------------------------------------
(* Products *)

ProductOmitted == {"id", "createdAt", "updatedAt", "isActive"}

insertProductSchema(body) == SchemaParse(body, ProductOmitted)

ProductBodies == [stock : StockValues]

ProductPatches ==
    {EmptyPatch}
    \cup {[stock |-> s] : s \in StockValues}
    \cup {[isActive |-> b] : b \in BOOLEAN}
    \cup {[stock |-> s, isActive |-> b] : s \in StockValues, b \in BOOLEAN}

\* minStock: integer("min_stock").default(10)
DefaultMinStock == 10

\* createProduct: insert {...insertProduct, isActive: true}
createProductRow(prods, insertProduct) ==
    Append(prods, [stock |-> insertProduct.stock,
                   minStock |-> IF "minStock" \in DOMAIN insertProduct
                                THEN insertProduct.minStock
                                ELSE DefaultMinStock,
                   isActive |-> TRUE])

\* deleteProduct: update products set is_active = false where id = :id
deleteProductRow(prods, id) ==
    IF id \in DOMAIN prods
    THEN [prods EXCEPT ![id].isActive = FALSE]
    ELSE prods

\* The threshold of a low-stock query: absent, or a number
NoThreshold == [given |-> FALSE]
Threshold(n) == [given |-> TRUE, value |-> n]

\* getLowStockProducts(threshold?): if (threshold) { active and stock <=
\* threshold } else { active and stock <= min_stock }
getLowStockProducts(prods, threshold) ==
    IF threshold.given /\ Truthy(threshold.value)
    THEN {i \in DOMAIN prods :
             prods[i].isActive /\ prods[i].stock <= threshold.value}
    ELSE {i \in DOMAIN prods :
             prods[i].isActive /\ prods[i].stock <= prods[i].minStock}

\* updateProduct: update ... set {...productUpdate} where id = :id
updateProductRow(prods, id, productUpdate) ==
    IF id \in DOMAIN prods
    THEN [prods EXCEPT ![id] = SetColumns(@, productUpdate)]
    ELSE prods

\* The same update with a floor: set stock = greatest(stock + :change, 0)
updateProductStock_floored(prods, id, change) ==
    IF id \in DOMAIN prods
    THEN [prods EXCEPT ![id].stock = IF @ + change < 0 THEN 0 ELSE @ + change]
    ELSE prods

\* The same update written as set({stock: change}): the delta overwrites
\* the stock instead of being added to it.
updateProductStock_overwrite(prods, id, change) ==
    IF id \in DOMAIN prods
    THEN [prods EXCEPT ![id].stock = change]
    ELSE prods

\* updateProductStock: update products set stock = stock + :change
\* where id = :id  (one statement; no row matches a missing id)
updateProductStock(prods, id, change) ==
    IF id \in DOMAIN prods
    THEN [prods EXCEPT ![id].stock = @ + change]
    ELSE prods

----------------------------------------------------------------------------
(* Line items *)

\* The productIds a line item may carry: every id the products sequence can
\* hand out and one past it (never a row).
ItemProductIds == 1 .. (MaxProducts + 1)

\* Line items as inputs: every product id with the regular quantity, and
\* every quantity on product 1.
Items ==
    {it \in [productId : ItemProductIds, quantity : Quantities] :
        it.quantity \in PositiveQuantities \/ it.productId = 1}

ListsOver(S) == UNION {[1 .. n -> S] : n \in 0 .. MaxItems}

\* The jsonb `items` column is not validated: it holds an array of items or
\* some other JSON value.
JsonArray(elems) == [isArray |-> TRUE, elems |-> elems]
NotAnArray == [isArray |-> FALSE, elems |-> <<>>]

ItemValues == {NotAnArray} \cup {JsonArray(l) : l \in ListsOver(Items)}

\* The same loop body with a guard that lets only increases through
applyItem_increasesOnly(prods, item, sign) ==
    IF Truthy(item.productId) /\ sign * item.quantity > 0
    THEN updateProductStock(prods, item.productId, sign * item.quantity)
    ELSE prods

\* if (item.productId && item.quantity) await updateProductStock(...)
applyItem(prods, item, sign) ==
    IF Truthy(item.productId) /\ Truthy(item.quantity)
    THEN updateProductStock(prods, item.productId, sign * item.quantity)
    ELSE prods

\* for (const item of items) { ... }  in list order
RECURSIVE applyElems(_, _, _)
applyElems(prods, elems, sign) ==
    IF elems = <<>>
    THEN prods
    ELSE applyElems(applyItem(prods, Head(elems), sign), Tail(elems), sign)

\* The same walk as one batch that an unresolved productId cancels
applyItems_allOrNothing(prods, items, sign) ==
    IF /\ items.isArray
       /\ \A i \in DOMAIN items.elems :
             items.elems[i].productId \in DOMAIN prods
    THEN applyElems(prods, items.elems, sign)
    ELSE prods

\* if (Array.isArray(items)) { for ... }
applyItems(prods, items, sign) ==
    IF items.isArray THEN applyElems(prods, items.elems, sign) ELSE prods

\* The sign each operation walks a transaction's items with.
PurchaseSign == 1
SaleSign == -1

\* createPurchase: +item.quantity; createSale: -item.quantity
CreateSign(kind) == IF kind = "purchase" THEN PurchaseSign ELSE SaleSign

\* The delete walking with the sign of the create
ReverseSign_asCreated(kind) == CreateSign(kind)

\* deletePurchase: -item.quantity; deleteSale: +item.quantity
ReverseSign(kind) == IF kind = "purchase" THEN -PurchaseSign ELSE -SaleSign

----------------------------------------------------------------------------
(* Purchases and sales *)

NoRows == [i \in {} |-> [items |-> NotAnArray]]

InsertRow(table, id, row) ==
    [i \in (DOMAIN table) \cup {id} |-> IF i = id THEN row ELSE table[i]]

DeleteRow(table, id) ==
    [i \in (DOMAIN table) \ {id} |-> table[i]]

\* The same update as an upsert: a missing id gets a row
updateTxRow_upsert(table, id, patch) ==
    IF id \in DOMAIN table
    THEN [table EXCEPT ![id] = SetColumns(@, patch)]
    ELSE InsertRow(table, id, SetColumns([items |-> NotAnArray], patch))

\* updatePurchase / updateSale: update ... set {...patch} where id = :id.
\* Only the row changes: no product is touched.
updateTxRow(table, id, patch) ==
    IF id \in DOMAIN table
    THEN [table EXCEPT ![id] = SetColumns(@, patch)]
    ELSE table

TxPatches(itemValues) == {EmptyPatch} \cup {[items |-> v] : v \in itemValues}

\* Ghost: what one walk of `items` with `sign` adds to product p's stock
\* when every statement of the walk takes effect.
RECURSIVE ElemsDelta(_, _, _)
ElemsDelta(elems, p, sign) ==
    IF elems = <<>>
    THEN 0
    ELSE (IF Head(elems).productId = p THEN sign * Head(elems).quantity ELSE 0)
         + ElemsDelta(Tail(elems), p, sign)

ItemsDelta(items, p, sign) ==
    IF items.isArray THEN ElemsDelta(items.elems, p, sign) ELSE 0

AddDeltas(acc, items, sign) ==
    [p \in DOMAIN acc |-> acc[p] + ItemsDelta(items, p, sign)]

----------------------------------------------------------------------------
(* Sequential handlers: products and transactions *)

\* POST /products -> createProduct
PostProduct(body) ==
    /\ Len(products) < MaxProducts
    /\ products' = createProductRow(products, insertProductSchema(body))
    /\ initialStock' = Append(initialStock, body.stock)
    /\ netDelta' = Append(netDelta, 0)
    /\ resp' = Answer("POST /products", "201",
                      Notes("product", "created"))
    /\ UNCHANGED <<users, purchases, purchaseSeq, sales, saleSeq, templates,
                   partners, requests, procs>>

\* PUT /products/:id -> updateProduct
PutProduct(id, body) ==
    /\ products' = updateProductRow(products, id, insertProductSchema(body))
    /\ resp' = IF id \in DOMAIN products
               THEN Answer("PUT /products", "200",
                           Notes("product", "updated"))
               ELSE Answer("PUT /products", "404", NoNotes)
    /\ UNCHANGED <<users, initialStock, netDelta, purchases, purchaseSeq, sales,
                   saleSeq, templates, partners, requests, procs>>

\* DELETE /products/:id -> getProduct, deleteProduct (a soft delete)
DeleteProduct(id) ==
    /\ products' = deleteProductRow(products, id)
    /\ resp' = IF id \in DOMAIN products
               THEN Answer("DELETE /products", "204",
                           Notes("product", "deleted"))
               ELSE Answer("DELETE /products", "404", NoNotes)
    /\ UNCHANGED <<users, initialStock, netDelta, purchases, purchaseSeq, sales,
                   saleSeq, templates, partners, requests, procs>>

\* GET /products/low-stock?threshold= -> getLowStockProducts: the query
\* string, when present, goes through parseInt
GetLowStockProducts(threshold) ==
    /\ resp' = [op |-> "GET /products/low-stock", status |-> "200",
                note |-> NoNotes, threshold |-> threshold,
                rows |-> getLowStockProducts(products, threshold)]
    /\ UNCHANGED <<users, stockVars, templateVars, approvalVars, procs>>

\* POST /purchases -> createPurchase: insert, then walk the stored items
CreatePurchase(items) ==
    /\ purchaseSeq + saleSeq < MaxTx
    /\ purchaseSeq' = purchaseSeq + 1
    /\ purchases' = InsertRow(purchases, purchaseSeq + 1, [items |-> items])
    /\ products' = applyItems(products, items, PurchaseSign)
    /\ resp' = Answer("createPurchase", "201",
                      Notes("purchase", "created"))
    /\ UNCHANGED <<users, initialStock, netDelta, sales, saleSeq, templates,
                   partners, requests, procs>>

\* The same route with an update that takes the old items back and walks
\* the new ones
UpdatePurchase_readjusting(id, patch) ==
    /\ purchases' = updateTxRow(purchases, id, patch)
    /\ products' =
          IF id \in DOMAIN purchases /\ "items" \in DOMAIN patch
          THEN applyItems(applyItems(products, purchases[id].items,
                                     -PurchaseSign),
                          patch.items, PurchaseSign)
          ELSE products
    /\ resp' = IF id \in DOMAIN purchases
               THEN Answer("updatePurchase", "200",
                           Notes("purchase", "updated"))
               ELSE Answer("updatePurchase", "404", NoNotes)
    /\ UNCHANGED <<users, initialStock, netDelta, purchaseSeq, sales,
                   saleSeq, templates, partners, requests, procs>>

\* PUT /purchases/:id -> updatePurchase
UpdatePurchase(id, patch) ==
    /\ purchases' = updateTxRow(purchases, id, patch)
    /\ resp' = IF id \in DOMAIN purchases
               THEN Answer("updatePurchase", "200",
                           Notes("purchase", "updated"))
               ELSE Answer("updatePurchase", "404", NoNotes)
    /\ UNCHANGED <<users, products, initialStock, netDelta, purchaseSeq, sales,
                   saleSeq, templates, partners, requests, procs>>

\* storage.deletePurchase: select, walk the items with the opposite sign,
\* delete the row
DeletePurchase(id) ==
    /\ IF id \in DOMAIN purchases
       THEN /\ products' = applyItems(products, purchases[id].items,
                                      -PurchaseSign)
            /\ purchases' = DeleteRow(purchases, id)
            /\ resp' = Answer("deletePurchase", "true", NoNotes)
       ELSE /\ UNCHANGED <<products, purchases>>
            /\ resp' = Answer("deletePurchase", "false", NoNotes)
    /\ UNCHANGED <<users, initialStock, netDelta, purchaseSeq, sales, saleSeq,
                   templates, partners, requests, procs>>

\* POST /sales -> createSale
CreateSale(items) ==
    /\ purchaseSeq + saleSeq < MaxTx
    /\ saleSeq' = saleSeq + 1
    /\ sales' = InsertRow(sales, saleSeq + 1, [items |-> items])
    /\ products' = applyItems(products, items, SaleSign)
    /\ resp' = Answer("createSale", "201",
                      Notes("sale", "created"))
    /\ UNCHANGED <<users, initialStock, netDelta, purchases, purchaseSeq, templates,
                   partners, requests, procs>>

\* PUT /sales/:id -> getSale, updateSale (the caller owns the sale or is
\* an admin)
UpdateSale(id, patch) ==
    /\ sales' = updateTxRow(sales, id, patch)
    /\ resp' = IF id \in DOMAIN sales
               THEN Answer("updateSale", "200", Notes("sale", "updated"))
               ELSE Answer("updateSale", "404", NoNotes)
    /\ UNCHANGED <<users, products, initialStock, netDelta, purchases, purchaseSeq,
                   saleSeq, templates, partners, requests, procs>>

\* storage.deleteSale
DeleteSale(id) ==
    /\ IF id \in DOMAIN sales
       THEN /\ products' = applyItems(products, sales[id].items, -SaleSign)
            /\ sales' = DeleteRow(sales, id)
            /\ resp' = Answer("deleteSale", "true", NoNotes)
       ELSE /\ UNCHANGED <<products, sales>>
            /\ resp' = Answer("deleteSale", "false", NoNotes)
    /\ UNCHANGED <<users, initialStock, netDelta, purchases, purchaseSeq, saleSeq,
                   templates, partners, requests, procs>>

----------------------------------------------------------------------------
(* Invoice templates *)

TemplateNames == {"invoice", "receipt"}

TemplateOmitted == {"id", "createdAt", "updatedAt"}

insertInvoiceTemplateSchema(body) == SchemaParse(body, TemplateOmitted)

\* POST bodies: name is required, isDefault optional
TemplateBodies ==
    [name : TemplateNames]
    \cup [name : TemplateNames, isDefault : BOOLEAN]

\* Partial<InsertInvoiceTemplate>
TemplatePatches ==
    {EmptyPatch}
    \cup [name : TemplateNames]
    \cup [isDefault : BOOLEAN]
    \cup [name : TemplateNames, isDefault : BOOLEAN]

\* The flag taken from the presence of the key
wantsDefault_keyPresent(template) == "isDefault" \in DOMAIN template

\* const isDefault = !!template.isDefault
wantsDefault(template) ==
    "isDefault" \in DOMAIN template /\ template.isDefault

\* The clearing statement left out
clearDefaults_skipped(tpls) == tpls

\* update invoice_templates set is_default = false where is_default = true
clearDefaults(tpls) ==
    [i \in DOMAIN tpls |->
        IF tpls[i].isDefault THEN [tpls[i] EXCEPT !.isDefault = FALSE]
                             ELSE tpls[i]]

\* The insert without the isDefault it computed: the column's default
insertTemplateRow_columnDefault(tpls, insertTemplate) ==
    Append(tpls, [name |-> insertTemplate.name, isDefault |-> FALSE])

\* insert {...insertTemplate, isDefault}
insertTemplateRow(tpls, insertTemplate) ==
    Append(tpls, [name |-> insertTemplate.name,
                  isDefault |-> wantsDefault(insertTemplate)])

\* update invoice_templates set {...templateUpdate} where id = :id
updateTemplateRow(tpls, id, templateUpdate) ==
    IF id \in DOMAIN tpls
    THEN [tpls EXCEPT ![id] = SetColumns(@, templateUpdate)]
    ELSE tpls

\* createInvoiceTemplate, run to completion
createInvoiceTemplate(tpls, insertTemplate) ==
    insertTemplateRow(IF wantsDefault(insertTemplate) THEN clearDefaults(tpls)
                                                      ELSE tpls,
                      insertTemplate)

\* updateInvoiceTemplate, run to completion
updateInvoiceTemplate(tpls, id, templateUpdate) ==
    updateTemplateRow(IF wantsDefault(templateUpdate) THEN clearDefaults(tpls)
                                                      ELSE tpls,
                      id, templateUpdate)

Defaults(tpls) == {i \in DOMAIN tpls : tpls[i].isDefault}

\* POST /invoice-templates -> createInvoiceTemplate
PostInvoiceTemplate(body) ==
    /\ Len(templates) < MaxTemplates
    /\ templates' = createInvoiceTemplate(templates,
                                          insertInvoiceTemplateSchema(body))
    /\ resp' = Answer("createInvoiceTemplate", "201",
                      Notes("invoiceTemplate", "created"))
    /\ UNCHANGED <<users, stockVars, approvalVars, procs>>

\* storage.updateInvoiceTemplate
UpdateInvoiceTemplate(id, patch) ==
    /\ templates' = updateInvoiceTemplate(templates, id, patch)
    /\ resp' = Answer("updateInvoiceTemplate",
                      IF id \in DOMAIN templates THEN "value" ELSE "undefined",
                      NoNotes)
    /\ UNCHANGED <<users, stockVars, approvalVars, procs>>

----------------------------------------------------------------------------
(* Partner entities and approval requests *)

\* The entityType tags the creation routes write, each naming its table
EntityTypes == {"vendor", "distributor", "retailer", "billedEntity",
                "supplier"}

\* The tags updateApprovalRequest's switch has a case for
ApprovableTypes == {"vendor", "distributor", "retailer", "billedEntity"}

PartnerNames == {"acme", "zenith"}

\* The omit list without isApproved
PartnerOmitted_keepsApproved == {"id", "createdAt", "updatedAt", "isActive"}

\* insertVendorSchema, insertSupplierSchema, insertDistributorSchema,
\* insertRetailerSchema, insertBilledEntitySchema: all omit the same columns
PartnerOmitted == {"id", "createdAt", "updatedAt", "isApproved", "isActive"}

insertPartnerSchema(body) == SchemaParse(body, PartnerOmitted)

\* POST bodies: the required contact field, and possibly an isApproved the
\* caller slips in
PartnerBodies ==
    [name : {"acme"}] \cup [name : {"acme"}, isApproved : {TRUE}]

\* PUT bodies
PartnerPatches ==
    {EmptyPatch}
    \cup [name : PartnerNames]
    \cup [isApproved : {TRUE}]
    \cup [name : PartnerNames, isApproved : {TRUE}]

\* {...a, ...b}: b's keys win
Spread(a, b) ==
    [f \in (DOMAIN a) \cup (DOMAIN b) |-> IF f \in DOMAIN b THEN b[f] ELSE a[f]]

\* createVendor (createSupplier, ...): insert {...insertVendor,
\* isActive: true, isApproved: false}
createPartnerRow(rows, insertPartner) ==
    Append(rows, Spread(insertPartner,
                        [isActive |-> TRUE, isApproved |-> FALSE]))

\* updateVendor / updateSupplier: update ... set {...patch} where id = :id
updatePartnerRow(rows, id, patch) ==
    IF id \in DOMAIN rows
    THEN [rows EXCEPT ![id] = SetColumns(@, patch)]
    ELSE rows

\* deleteSupplier: update suppliers set is_active = false where id = :id
deleteSupplierRow(rows, id) ==
    IF id \in DOMAIN rows
    THEN [rows EXCEPT ![id].isActive = FALSE]
    ELSE rows

\* The same insert with the spread written last: {status: "pending",
\* ...insertRequest}
createApprovalRequest_inputWins(reqs, insertRequest) ==
    Append(reqs, Spread([status |-> "pending"], insertRequest))

\* createApprovalRequest: insert {...insertRequest, status: "pending"}
createApprovalRequest(reqs, insertRequest) ==
    Append(reqs, Spread(insertRequest, [status |-> "pending"]))

\* updateApprovalRequest, first statement:
\* update approval_requests set {...requestUpdate} where id = :id
updateRequestRow(reqs, id, requestUpdate) ==
    IF id \in DOMAIN reqs
    THEN [reqs EXCEPT ![id] = SetColumns(@, requestUpdate)]
    ELSE reqs

\* The same update without its where clause
setApproved_everyRow(rows, entityId) ==
    [i \in DOMAIN rows |-> [rows[i] EXCEPT !.isApproved = TRUE]]

\* update <table> set is_approved = true where id = :entityId
setApproved(rows, entityId) ==
    IF entityId \in DOMAIN rows
    THEN [rows EXCEPT ![entityId].isApproved = TRUE]
    ELSE rows

\* The same switch with a case for every table
approveEntity_everyType(tables, entityType, entityId) ==
    [tables EXCEPT ![entityType] = setApproved(@, entityId)]

\* updateApprovalRequest, second statement: switch (entityType) { case
\* "vendor": ...; case "distributor": ...; case "retailer": ...;
\* case "billedEntity": ... }  -- no default case
approveEntity(tables, entityType, entityId) ==
    CASE entityType = "vendor" ->
           [tables EXCEPT !["vendor"] = setApproved(@, entityId)]
      [] entityType = "distributor" ->
           [tables EXCEPT !["distributor"] = setApproved(@, entityId)]
      [] entityType = "retailer" ->
           [tables EXCEPT !["retailer"] = setApproved(@, entityId)]
      [] entityType = "billedEntity" ->
           [tables EXCEPT !["billedEntity"] = setApproved(@, entityId)]
      [] OTHER -> tables

\* The guard testing only that a status was sent
approves_anyStatus(reqs, id, requestUpdate) ==
    /\ id \in DOMAIN reqs
    /\ "status" \in DOMAIN requestUpdate

\* Whether updateApprovalRequest goes on to its second statement:
\* request && (status === "approved" || status === "rejected"), and
\* inside it, requestUpdate.status === "approved"
approves(reqs, id, requestUpdate) ==
    /\ id \in DOMAIN reqs
    /\ "status" \in DOMAIN requestUpdate
    /\ requestUpdate.status = "approved"

\* updateApprovalRequest, run to completion: the partner tables afterwards
updateApprovalRequestTables(tables, reqs, id, requestUpdate) ==
    IF approves(reqs, id, requestUpdate)
    THEN approveEntity(tables, reqs[id].entityType, reqs[id].entityId)
    ELSE tables

\* The statuses a caller may send to PUT /approval-requests/:id
DecisionInputs == {"approved", "rejected", "pending"}

\* The route without its check of the status
validDecision_anyStatus(status) == TRUE

\* if (!['approved', 'rejected'].includes(status)) return res.status(400)
validDecision(status) == status \in {"approved", "rejected"}

TotalPartners == 
    Len(partners["vendor"]) + Len(partners["distributor"])
    + Len(partners["retailer"]) + Len(partners["billedEntity"])
    + Len(partners["supplier"])

\* The request naming the row before the one just created
approvalRequestFor_rowBefore(type, entityId) ==
    [entityType |-> type,
     entityId |-> IF entityId > 1 THEN entityId - 1 ELSE entityId]

\* Every route sending the vendor route's entityType
approvalRequestFor_vendorOnly(type, entityId) ==
    [entityType |-> "vendor", entityId |-> entityId]

\* The request a creation route opens for the row it has just created:
\* {entityType: '<type>', entityId: <row>.id, requestedBy, notes}
approvalRequestFor(type, entityId) ==
    [entityType |-> type, entityId |-> entityId]

\* POST /vendors, /distributors, /retailers, /billed-entities, /suppliers:
\* create the row, then the approval request, then notify.  requestStored
\* is whether the store carries out the second insert; when it does not the
\* handler answers 500 and the entity row stays.
PostPartner(type, body, requestStored) ==
    /\ TotalPartners < MaxPartners
    /\ partners' = [partners EXCEPT ![type] =
                       createPartnerRow(@, insertPartnerSchema(body))]
    /\ IF requestStored
       THEN /\ requests' = createApprovalRequest(requests,
                              approvalRequestFor(type,
                                                 Len(partners[type]) + 1))
            /\ resp' = Answer("POST /partner", "201", Notes(type, "created"))
       ELSE /\ UNCHANGED requests
            /\ resp' = Answer("POST /partner", "500", NoNotes)
    /\ UNCHANGED <<users, stockVars, templateVars, procs>>

\* PUT /vendors/:id, PUT /suppliers/:id
PutPartner(type, id, body) ==
    /\ partners' = [partners EXCEPT ![type] =
                       updatePartnerRow(@, id, insertPartnerSchema(body))]
    /\ resp' = IF id \in DOMAIN partners[type]
               THEN Answer("PUT /partner", "200", Notes(type, "updated"))
               ELSE Answer("PUT /partner", "404", NoNotes)
    /\ UNCHANGED <<users, stockVars, templateVars, requests, procs>>

\* DELETE /suppliers/:id -> getSupplier, deleteSupplier
DeleteSupplier(id) ==
    /\ partners' = [partners EXCEPT !["supplier"] = deleteSupplierRow(@, id)]
    /\ resp' = IF id \in DOMAIN partners["supplier"]
               THEN Answer("DELETE /suppliers", "204",
                           Notes("supplier", "deleted"))
               ELSE Answer("DELETE /suppliers", "404", NoNotes)
    /\ UNCHANGED <<users, stockVars, templateVars, requests, procs>>

\* PUT /approval-requests/:id -> updateApprovalRequest(id, {status, notes})
PutApprovalRequest(id, status) ==
    /\ IF validDecision(status)
       THEN /\ requests' = updateRequestRow(requests, id, [status |-> status])
            /\ partners' = updateApprovalRequestTables(partners, requests', id,
                                                       [status |-> status])
            /\ resp' = IF id \in DOMAIN requests
                       THEN Answer("PUT /approval-requests", "200",
                                   Notes("approvalRequest", "updated"))
                       ELSE Answer("PUT /approval-requests", "404", NoNotes)
       ELSE /\ UNCHANGED <<requests, partners>>
            /\ resp' = Answer("PUT /approval-requests", "400", NoNotes)
    /\ UNCHANGED <<users, stockVars, templateVars, procs>>

----------------------------------------------------------------------------
(* Requests in flight.  A handler that issues several store statements     *)
(* holds a slot of procs between them; a statement of another request may  *)
(* run between any two of its own.                                         *)

Idle == [op |-> "idle"]

IsIdle(p) == procs[p].op = "idle"

AllIdle == \A p \in DOMAIN procs : IsIdle(p)

InFlight(op) == {p \in DOMAIN procs : procs[p].op = op}

\* The elements a walk iterates over: none unless Array.isArray(items)
Elems(items) == IF items.isArray THEN items.elems ELSE <<>>

\* createPurchase / createSale, first statement: the insert.  The handler
\* then walks the stored items; with none to walk it returns at once.
BeginCreate(p, kind, items) ==
    /\ IsIdle(p)
    /\ purchaseSeq + saleSeq < MaxTx
    /\ IF kind = "purchase"
       THEN /\ purchaseSeq' = purchaseSeq + 1
            /\ purchases' = InsertRow(purchases, purchaseSeq + 1,
                                      [items |-> items])
            /\ netDelta' = AddDeltas(netDelta, items, PurchaseSign)
            /\ UNCHANGED <<sales, saleSeq>>
       ELSE /\ saleSeq' = saleSeq + 1
            /\ sales' = InsertRow(sales, saleSeq + 1, [items |-> items])
            /\ netDelta' = AddDeltas(netDelta, items, SaleSign)
            /\ UNCHANGED <<purchases, purchaseSeq>>
    /\ IF Elems(items) = <<>>
       THEN /\ UNCHANGED procs
            /\ resp' = Answer(IF kind = "purchase" THEN "createPurchase"
                                                   ELSE "createSale",
                              "201", Notes(kind, "created"))
       ELSE /\ procs' = [procs EXCEPT ![p] =
                           [op |-> "create", kind |-> kind, id |-> 0,
                            rest |-> Elems(items),
                            sign |-> IF kind = "purchase" THEN PurchaseSign
                                                          ELSE SaleSign]]
            /\ UNCHANGED resp
    /\ UNCHANGED <<users, products, initialStock, templateVars, approvalVars>>

\* deletePurchase / deleteSale, first statement: the select.  A missing row
\* answers false at once.
BeginDelete(p, kind, id) ==
    /\ IsIdle(p)
    /\ LET table == IF kind = "purchase" THEN purchases ELSE sales
           sign == ReverseSign(kind)
       IN  IF id \in DOMAIN table
           THEN /\ procs' = [procs EXCEPT ![p] =
                               [op |-> "delete", kind |-> kind, id |-> id,
                                rest |-> Elems(table[id].items),
                                sign |-> sign]]
                /\ netDelta' = AddDeltas(netDelta, table[id].items, sign)
                /\ UNCHANGED resp
           ELSE /\ UNCHANGED <<procs, netDelta>>
                /\ resp' = Answer(IF kind = "purchase" THEN "deletePurchase"
                                                       ELSE "deleteSale",
                                  "false", NoNotes)
    /\ UNCHANGED <<users, products, initialStock, purchases, purchaseSeq, sales,
                   saleSeq, templateVars, approvalVars>>

\* One iteration of the walk: if (item.productId && item.quantity)
\* await updateProductStock(item.productId, +-item.quantity).  A create
\* returns after its last item.
WalkItem(p) ==
    /\ procs[p].op \in {"create", "delete"}
    /\ procs[p].rest # <<>>
    /\ products' = applyItem(products, Head(procs[p].rest), procs[p].sign)
    /\ IF procs[p].op = "create" /\ Tail(procs[p].rest) = <<>>
       THEN /\ procs' = [procs EXCEPT ![p] = Idle]
            /\ resp' = Answer(IF procs[p].kind = "purchase"
                              THEN "createPurchase" ELSE "createSale",
                              "201", Notes(procs[p].kind, "created"))
       ELSE /\ procs' = [procs EXCEPT ![p].rest = Tail(@)]
            /\ UNCHANGED resp
    /\ UNCHANGED <<users, initialStock, netDelta, purchases, purchaseSeq, sales,
                   saleSeq, templateVars, approvalVars>>

\* deletePurchase / deleteSale, last statement: delete ... where id = :id
\* returning; the answer is whether a row was deleted.
EndDelete(p) ==
    /\ procs[p].op = "delete"
    /\ procs[p].rest = <<>>
    /\ LET id == procs[p].id
           isPurchase == procs[p].kind = "purchase"
           table == IF isPurchase THEN purchases ELSE sales
       IN  /\ IF isPurchase
              THEN purchases' = DeleteRow(purchases, id) /\ UNCHANGED sales
              ELSE sales' = DeleteRow(sales, id) /\ UNCHANGED purchases
           /\ resp' = Answer(IF isPurchase THEN "deletePurchase"
                                           ELSE "deleteSale",
                             IF id \in DOMAIN table THEN "true" ELSE "false",
                             NoNotes)
    /\ procs' = [procs EXCEPT ![p] = Idle]
    /\ UNCHANGED <<users, products, initialStock, netDelta, purchaseSeq, saleSeq,
                   templateVars, approvalVars>>

\* createInvoiceTemplate / updateInvoiceTemplate with isDefault = true,
\* first statement: clear the existing defaults.
ClearDefaultsStep(p, op, id, template) ==
    /\ IsIdle(p)
    /\ wantsDefault(template)
    /\ op = "createTemplate"
          => Len(templates) + Cardinality(InFlight("createTemplate"))
                < MaxTemplates
    /\ templates' = clearDefaults(templates)
    /\ procs' = [procs EXCEPT ![p] =
                    [op |-> op, id |-> id, template |-> template]]
    /\ UNCHANGED <<users, stockVars, approvalVars, resp>>

\* ... second statement: the insert or the update of the row.
WriteTemplateStep(p) ==
    /\ procs[p].op \in {"createTemplate", "updateTemplate"}
    /\ IF procs[p].op = "createTemplate"
       THEN /\ templates' = insertTemplateRow(templates, procs[p].template)
            /\ resp' = Answer("createInvoiceTemplate", "201",
                              Notes("invoiceTemplate", "created"))
       ELSE /\ templates' = updateTemplateRow(templates, procs[p].id,
                                              procs[p].template)
            /\ resp' = Answer("updateInvoiceTemplate",
                              IF procs[p].id \in DOMAIN templates
                              THEN "value" ELSE "undefined",
                              NoNotes)
    /\ procs' = [procs EXCEPT ![p] = Idle]
    /\ UNCHANGED <<users, stockVars, approvalVars>>

----------------------------------------------------------------------------
(* Initial state: the store after construction, every table empty *)

NoAnswer == Answer("none", "none", NoNotes)

Init ==
    /\ products = <<>>
    /\ initialStock = <<>>
    /\ netDelta = <<>>
    /\ purchases = NoRows
    /\ purchaseSeq = 0
    /\ sales = NoRows
    /\ saleSeq = 0
    /\ templates = <<>>
    /\ partners = [t \in EntityTypes |-> <<>>]
    /\ requests = <<>>
    /\ users = <<>>
    /\ procs = [p \in 1 .. MaxProcs |-> Idle]
    /\ resp = NoAnswer

----------------------------------------------------------------------------
(* SpecLedger: the calls of the stock ledger, line items naming existing   *)
(* products with positive quantities                                       *)

ExistingItems ==
    [productId : DOMAIN products, quantity : PositiveQuantities]

LedgerItemValues == {JsonArray(l) : l \in ListsOver(ExistingItems)}

TxIds(seq) == 1 .. (seq + 1)

NextLedger ==
    \/ \E body \in ProductBodies : PostProduct(body)
    \/ \E items \in LedgerItemValues : CreatePurchase(items)
    \/ \E items \in LedgerItemValues : CreateSale(items)
    \/ \E id \in TxIds(purchaseSeq), patch \in TxPatches(LedgerItemValues) :
          UpdatePurchase(id, patch)
    \/ \E id \in TxIds(saleSeq), patch \in TxPatches(LedgerItemValues) :
          UpdateSale(id, patch)
    \/ \E id \in TxIds(purchaseSeq) : DeletePurchase(id)
    \/ \E id \in TxIds(saleSeq) : DeleteSale(id)

SpecLedger == Init /\ [][NextLedger]_vars

\* Sum of the quantities of product p's line items over the rows of a table
RECURSIVE TableQuantity(_, _, _)
TableQuantity(table, ids, p) ==
    IF ids = {}
    THEN 0
    ELSE LET id == CHOOSE i \in ids : TRUE
         IN  ItemsDelta(table[id].items, p, 1)
             + TableQuantity(table, ids \ {id}, p)

LedgerStock(p) ==
    initialStock[p] + TableQuantity(purchases, DOMAIN purchases, p)
                    - TableQuantity(sales, DOMAIN sales, p)

\* C1: in every quiescent state each product's stock is its initial stock
\* plus the quantities of its line items in the existing purchases minus
\* those in the existing sales.
C1_StockReflectsTransactions ==
    \A p \in DOMAIN products : products[p].stock = LedgerStock(p)

\* C11: deleting an existing purchase (sale) and then creating one with
\* the same line items leaves every product's stock as it was before the
\* delete.
C11_DeleteRecreateRoundTrip ==
    [][/\ \A id \in DOMAIN purchases :
             DeletePurchase(id)
                => LET after == applyItems(products', purchases[id].items,
                                           PurchaseSign)
                   IN  \A p \in DOMAIN products :
                          after[p].stock = products[p].stock
       /\ \A id \in DOMAIN sales :
             DeleteSale(id)
                => LET after == applyItems(products', sales[id].items,
                                           SaleSign)
                   IN  \A p \in DOMAIN products :
                          after[p].stock = products[p].stock]_vars

\* C11 witness: purchase 1 has been deleted and purchase 2 created with
\* line items of product 1, and product 1's stock shows one purchase only.
C11_Witness ==
    /\ resp.op = "createPurchase"
    /\ purchaseSeq = 2
    /\ DOMAIN purchases = {2}
    /\ 1 \in DOMAIN products
    /\ ItemsDelta(purchases[2].items, 1, PurchaseSign) > 0
    /\ products[1].stock =
          initialStock[1] + ItemsDelta(purchases[2].items, 1, PurchaseSign)

\* C26: a createSale always answers 201 and lowers each product's stock by
\* the quantity sold of it, whatever the stock was: a sale of more than the
\* stock leaves it negative.
C26_SaleBelowZero ==
    [][resp'.op = "createSale"
         => /\ resp'.status = "201"
            /\ saleSeq' \in DOMAIN sales'
            /\ \A p \in DOMAIN products :
                  products'[p].stock =
                     products[p].stock
                        - TableQuantity(sales', {saleSeq'}, p)]_vars

\* C26 witness: a sale has just been created and a product that started
\* with a stock of 0 or more now has a negative stock.
C26_Witness ==
    /\ resp.op = "createSale"
    /\ resp.status = "201"
    /\ \E p \in DOMAIN products :
          /\ initialStock[p] >= 0
          /\ TableQuantity(sales, {saleSeq}, p) > 0
          /\ products[p].stock < 0

----------------------------------------------------------------------------
(* SpecStock: the product and transaction calls with unvalidated input:    *)
(* line items of any quantity naming any product id, ids of missing rows   *)

ProductIds == 1 .. (Len(products) + 1)

NextStock ==
    \/ \E body \in ProductBodies : PostProduct(body)
    \/ \E id \in ProductIds, body \in ProductPatches : PutProduct(id, body)
    \/ \E items \in ItemValues :
          purchaseSeq + saleSeq < MaxWildTx /\ CreatePurchase(items)
    \/ \E items \in ItemValues :
          purchaseSeq + saleSeq < MaxWildTx /\ CreateSale(items)
    \/ \E id \in TxIds(purchaseSeq), patch \in TxPatches(ItemValues) :
          UpdatePurchase(id, patch)
    \/ \E id \in TxIds(saleSeq), patch \in TxPatches(ItemValues) :
          UpdateSale(id, patch)
    \/ \E id \in TxIds(purchaseSeq) : DeletePurchase(id)
    \/ \E id \in TxIds(saleSeq) : DeleteSale(id)

SpecStock == Init /\ [][NextStock]_vars

\* C2: no request changes a product's stock except a purchase's or a sale's
\* walk of its line items; PUT /products/:id in particular leaves every
\* stock as it was.
C2_StockOnlyThroughLineItems ==
    [][(\E p \in DOMAIN products : products'[p].stock # products[p].stock)
         => resp'.op \in {"createPurchase", "createSale",
                          "deletePurchase", "deleteSale"}]_vars

\* C15: whatever line items the body carries, createPurchase lowers no
\* product's stock and createSale raises none.
C15_PurchaseRaisesSaleLowers ==
    [][\A items \in ItemValues :
          /\ CreatePurchase(items)
                => \A p \in DOMAIN products :
                      products'[p].stock >= products[p].stock
          /\ CreateSale(items)
                => \A p \in DOMAIN products :
                      products'[p].stock <= products[p].stock]_vars

\* C19: an updatePurchase or updateSale, whatever items it writes into the
\* row, leaves the stock of every product as it was.
C19_UpdateLeavesStock ==
    [][resp'.op \in {"updatePurchase", "updateSale"}
         => /\ DOMAIN products' = DOMAIN products
            /\ \A p \in DOMAIN products :
                  products'[p].stock = products[p].stock]_vars

\* C19 witness: the only purchase has just been updated, its items now add
\* to product 1, and product 1's stock is still the 0 it was created with.
C19_Witness ==
    /\ resp.op = "updatePurchase"
    /\ resp.status = "200"
    /\ purchaseSeq = 1
    /\ saleSeq = 0
    /\ 1 \in DOMAIN purchases
    /\ 1 \in DOMAIN products
    /\ ItemsDelta(purchases[1].items, 1, PurchaseSign) > 0
    /\ products[1].stock = 0

\* C20: a createPurchase or createSale answers 201 and leaves a new row;
\* each product's stock changes by the deltas of the row's items that name
\* it, so an item whose productId names no product changes no stock and
\* takes nothing back from the items around it.
C20_UnresolvedItemIsSkipped ==
    [][/\ resp'.op = "createPurchase"
          => /\ resp'.status = "201"
             /\ purchaseSeq' = purchaseSeq + 1
             /\ DOMAIN purchases' = DOMAIN purchases \cup {purchaseSeq'}
             /\ purchaseSeq' \notin DOMAIN purchases
             /\ DOMAIN products' = DOMAIN products
             /\ \A p \in DOMAIN products :
                   products'[p].stock =
                      products[p].stock
                         + ItemsDelta(purchases'[purchaseSeq'].items, p,
                                      PurchaseSign)
       /\ resp'.op = "createSale"
          => /\ resp'.status = "201"
             /\ saleSeq' = saleSeq + 1
             /\ DOMAIN sales' = DOMAIN sales \cup {saleSeq'}
             /\ saleSeq' \notin DOMAIN sales
             /\ DOMAIN products' = DOMAIN products
             /\ \A p \in DOMAIN products :
                   products'[p].stock =
                      products[p].stock
                         + ItemsDelta(sales'[saleSeq'].items, p,
                                      SaleSign)]_vars

\* C20 witness: a purchase of product 1 followed by an item of a product
\* that does not exist has been created: the row holds both items and
\* product 1's stock has gone up by the first.
C20_Witness ==
    /\ resp.op = "createPurchase"
    /\ resp.status = "201"
    /\ purchaseSeq = 1
    /\ 1 \in DOMAIN purchases
    /\ purchases[1].items =
          JsonArray(<<[productId |-> 1, quantity |-> 2],
                      [productId |-> MaxProducts + 1, quantity |-> 2]>>)
    /\ 1 \in DOMAIN products
    /\ products[1].stock \in {s + 2 : s \in StockValues}

----------------------------------------------------------------------------
(* SpecCatalog: the product catalogue: create, update, soft-delete and the *)
(* low-stock query                                                         *)

MinStockValues == {1}

CatalogBodies ==
    ProductBodies \cup [stock : StockValues, minStock : MinStockValues]

ThresholdValues == {-1, 0, 1, 3}

Thresholds == {NoThreshold} \cup {Threshold(n) : n \in ThresholdValues}

NextCatalog ==
    \/ \E body \in CatalogBodies : PostProduct(body)
    \/ \E id \in ProductIds, body \in ProductPatches : PutProduct(id, body)
    \/ \E id \in ProductIds : DeleteProduct(id)
    \/ \E threshold \in Thresholds : GetLowStockProducts(threshold)

SpecCatalog == Init /\ [][NextCatalog]_vars

\* C13: the low-stock query with a threshold t given, 0 included, answers
\* exactly the active products with stock <= t; with none given, exactly
\* the active products with stock <= their own minStock.
C13_LowStockAnswer ==
    resp.op = "GET /products/low-stock"
       => resp.rows =
             IF resp.threshold.given
             THEN {i \in DOMAIN products :
                      /\ products[i].isActive
                      /\ products[i].stock <= resp.threshold.value}
             ELSE {i \in DOMAIN products :
                      /\ products[i].isActive
                      /\ products[i].stock <= products[i].minStock}

----------------------------------------------------------------------------
(* SpecTemplate: template calls, each run to completion before the next    *)

TemplateIds == 1 .. (Len(templates) + 1)

NextTemplate ==
    \/ \E body \in TemplateBodies : PostInvoiceTemplate(body)
    \/ \E id \in TemplateIds, patch \in TemplatePatches :
          UpdateInvoiceTemplate(id, patch)

SpecTemplate == Init /\ [][NextTemplate]_vars

\* C3: after any sequence of template creates and updates, each run to
\* completion, at most one template row is the default.
C3_AtMostOneDefault ==
    Cardinality(Defaults(templates)) <= 1

\* C3 witness: a create or update with isDefault = true has taken the
\* default from an earlier default template.
C3_Witness ==
    /\ Len(templates) >= 2
    /\ Cardinality(Defaults(templates)) = 1
    /\ ~templates[1].isDefault
    /\ resp.op \in {"createInvoiceTemplate", "updateInvoiceTemplate"}

\* C12: after a create with isDefault = true the new template is the only
\* default, and after an update with isDefault = true of an existing
\* template that template is the only default; so of two templates created
\* as default one after the other, only the second is the default.
C12_LastDefaultWins ==
    [][/\ \A body \in TemplateBodies :
             (wantsDefault(body) /\ PostInvoiceTemplate(body))
                => Defaults(templates') = {Len(templates) + 1}
       /\ \A id \in DOMAIN templates : \A patch \in TemplatePatches :
             (wantsDefault(patch) /\ UpdateInvoiceTemplate(id, patch))
                => Defaults(templates') = {id}]_vars

\* C12 witness: two templates exist, the second was just created and is
\* the default, the first is not.
C12_Witness ==
    /\ resp.op = "createInvoiceTemplate"
    /\ Len(templates) = 2
    /\ Defaults(templates) = {2}

\* C24: a create or an update whose isDefault is false or absent changes
\* the isDefault flag of no row other than the one it creates or updates.
C24_NonDefaultTouchesNoOtherRow ==
    [][/\ \A body \in TemplateBodies :
             (/\ "isDefault" \in DOMAIN body => ~body.isDefault
              /\ PostInvoiceTemplate(body))
                => \A i \in DOMAIN templates :
                      templates'[i].isDefault = templates[i].isDefault
       /\ \A id \in TemplateIds : \A patch \in TemplatePatches :
             (/\ "isDefault" \in DOMAIN patch => ~patch.isDefault
              /\ UpdateInvoiceTemplate(id, patch))
                => \A i \in DOMAIN templates \ {id} :
                      templates'[i].isDefault = templates[i].isDefault]_vars

\* C24 witness: a template has just been created with isDefault false or
\* absent beside a default template, which is still the default.
C24_Witness ==
    /\ resp.op = "createInvoiceTemplate"
    /\ Len(templates) = 2
    /\ Defaults(templates) = {1}

\* C29: an update with isDefault = true of an id that names no template
\* answers undefined and leaves every template's isDefault flag as it was.
C29_MissingIdKeepsDefault ==
    [][\A id \in TemplateIds \ DOMAIN templates :
          \A patch \in TemplatePatches :
             (wantsDefault(patch) /\ UpdateInvoiceTemplate(id, patch))
                => /\ resp'.status = "undefined"
                   /\ \A i \in DOMAIN templates :
                         templates'[i].isDefault = templates[i].isDefault]_vars

----------------------------------------------------------------------------
(* SpecApproval: partner creation, partner update and approval decisions,  *)
(* each request run to completion before the next                          *)

NextApproval ==
    \/ \E type \in EntityTypes, body \in PartnerBodies, stored \in BOOLEAN :
          PostPartner(type, body, stored)
    \/ \E type \in {"vendor", "supplier"}, body \in PartnerPatches :
          \E id \in 1 .. (Len(partners[type]) + 1) : PutPartner(type, id, body)
    \/ \E id \in 1 .. (Len(requests) + 1), status \in DecisionInputs :
          PutApprovalRequest(id, status)

SpecApproval == Init /\ [][NextApproval]_vars

RequestsFor(reqs, type, entityId) ==
    {r \in DOMAIN reqs : /\ reqs[r].entityType = type
                         /\ reqs[r].entityId = entityId}

Decided == {"approved", "rejected"}

\* C5: once a request is approved or rejected, no later decision changes
\* its status.
C5_DecidedStatusIsTerminal ==
    [][\A r \in DOMAIN requests :
          requests[r].status \in Decided
             => requests'[r].status = requests[r].status]_vars

\* C6: deciding 'approved' on an existing request of an approvable type
\* sets the request's status to approved and isApproved = true on the row
\* of that type with the request's entityId, and changes the isApproved of
\* no other row of any partner table.
C6_ApproveFlipsExactlyTarget ==
    [][\A id \in DOMAIN requests :
          (/\ PutApprovalRequest(id, "approved")
           /\ requests[id].entityType \in ApprovableTypes)
             => /\ requests'[id].status = "approved"
                /\ \A t \in EntityTypes : \A i \in DOMAIN partners[t] :
                      partners'[t][i].isApproved =
                         IF /\ t = requests[id].entityType
                            /\ i = requests[id].entityId
                         THEN TRUE
                         ELSE partners[t][i].isApproved]_vars

\* C6 witness: an approval has been decided, its target is approved, and
\* the row with the same id in another partner table is still unapproved.
C6_Witness ==
    /\ resp.op = "PUT /approval-requests"
    /\ resp.status = "200"
    /\ \E r \in DOMAIN requests :
          /\ requests[r].status = "approved"
          /\ requests[r].entityType \in ApprovableTypes
          /\ requests[r].entityId \in DOMAIN partners[requests[r].entityType]
          /\ partners[requests[r].entityType][requests[r].entityId].isApproved
          /\ \E t \in EntityTypes \ {requests[r].entityType} :
                /\ requests[r].entityId \in DOMAIN partners[t]
                /\ ~partners[t][requests[r].entityId].isApproved

\* C7: deciding 'rejected' on a request sets its status to rejected and
\* leaves every partner row's isApproved, the target's included, as it was.
C7_RejectSetsNoFlag ==
    [][\A id \in DOMAIN requests :
          PutApprovalRequest(id, "rejected")
             => /\ requests'[id].status = "rejected"
                /\ \A t \in EntityTypes : \A i \in DOMAIN partners[t] :
                      partners'[t][i].isApproved = partners[t][i].isApproved]_vars

\* C7 witness: a rejection has been decided and its target is unapproved.
C7_Witness ==
    /\ resp.op = "PUT /approval-requests"
    /\ resp.status = "200"
    /\ \E r \in DOMAIN requests :
          /\ requests[r].status = "rejected"
          /\ requests[r].entityId \in DOMAIN partners[requests[r].entityType]
          /\ ~partners[requests[r].entityType][requests[r].entityId].isApproved

\* C8: when a partner creation answers 201, exactly one approval request
\* names the new row and it is pending; and no step adds a request for a
\* row that already exists.
C8_OneRequestPerCreatedEntity ==
    [][/\ \A t \in EntityTypes :
             (/\ resp'.op = "POST /partner"
              /\ resp'.status = "201"
              /\ Len(partners'[t]) = Len(partners[t]) + 1)
                => LET new == RequestsFor(requests', t, Len(partners'[t]))
                   IN  /\ Cardinality(new) = 1
                       /\ \A r \in new : requests'[r].status = "pending"
       /\ \A t \in EntityTypes : \A i \in DOMAIN partners[t] :
             Cardinality(RequestsFor(requests', t, i))
                <= Cardinality(RequestsFor(requests, t, i))]_vars

\* C8 witness: two rows with the same id in different tables have been
\* created, and each has its own single pending request.
C8_Witness ==
    /\ resp.op = "POST /partner"
    /\ resp.status = "201"
    /\ \E t1 \in EntityTypes : \E t2 \in EntityTypes \ {t1} :
          /\ Len(partners[t1]) = 1
          /\ Len(partners[t2]) = 1
          /\ Cardinality(RequestsFor(requests, t1, 1)) = 1
          /\ Cardinality(RequestsFor(requests, t2, 1)) = 1
          /\ \A r \in DOMAIN requests : requests[r].status = "pending"

\* C9: a partner row is created with isApproved = false, and its isApproved
\* changes only in a step of PUT /approval-requests that leaves an approved
\* request naming the row; the create and update routes never change it.
C9_ApprovedOnlyByDecision ==
    [][\A t \in EntityTypes : \A i \in DOMAIN partners'[t] :
          IF i \in DOMAIN partners[t]
          THEN partners'[t][i].isApproved # partners[t][i].isApproved
                  => /\ resp'.op = "PUT /approval-requests"
                     /\ \E r \in RequestsFor(requests', t, i) :
                           requests'[r].status = "approved"
          ELSE ~partners'[t][i].isApproved]_vars

\* C9 witness: a vendor or supplier has been renamed through its update
\* route and is unapproved.
C9_Witness ==
    /\ resp.op = "PUT /partner"
    /\ resp.status = "200"
    /\ \E t \in {"vendor", "supplier"} : \E i \in DOMAIN partners[t] :
          /\ partners[t][i].name = "zenith"
          /\ ~partners[t][i].isApproved

\* C22: approving a request whose entityType the switch has no case for
\* (the supplier route's 'supplier') stores status approved, answers 200 and
\* changes no partner row; no supplier is ever approved.
C22_SupplierNeverApproved ==
    /\ [](\A i \in DOMAIN partners["supplier"] :
             ~partners["supplier"][i].isApproved)
    /\ [][\A id \in DOMAIN requests :
             (/\ requests[id].entityType \notin ApprovableTypes
              /\ PutApprovalRequest(id, "approved"))
                => /\ requests'[id].status = "approved"
                   /\ partners' = partners
                   /\ resp'.status = "200"]_vars

\* C22 witness: the request of an existing supplier has just been approved
\* and the supplier is not approved.
C22_Witness ==
    /\ resp.op = "PUT /approval-requests"
    /\ resp.status = "200"
    /\ \E r \in DOMAIN requests :
          /\ requests[r].entityType = "supplier"
          /\ requests[r].status = "approved"
          /\ requests[r].entityId \in DOMAIN partners["supplier"]
          /\ ~partners["supplier"][requests[r].entityId].isApproved

\* C25: a partner creation whose approval-request insert fails answers 500
\* with no notification and leaves the new row unapproved with no request
\* naming it; a row no request names never gets one and is never approved.
C25_OrphanStaysUnapproved ==
    /\ [](\A type \in EntityTypes : \A i \in DOMAIN partners[type] :
             RequestsFor(requests, type, i) = {}
                => ~partners[type][i].isApproved)
    /\ [][/\ \A type \in EntityTypes : \A body \in PartnerBodies :
                PostPartner(type, body, FALSE)
                   => /\ Len(partners'[type]) = Len(partners[type]) + 1
                      /\ ~partners'[type][Len(partners'[type])].isApproved
                      /\ RequestsFor(requests', type,
                                     Len(partners'[type])) = {}
                      /\ resp'.status = "500"
                      /\ resp'.note = NoNotes
          /\ \A type \in EntityTypes : \A i \in DOMAIN partners[type] :
                RequestsFor(requests, type, i) = {}
                   => RequestsFor(requests', type, i) = {}]_vars

\* C25 witness: vendor 1 was created without its request; vendor 2 has
\* since been created and approved, and vendor 1 is still unapproved with
\* no request naming it.
C25_Witness ==
    /\ resp.op = "PUT /approval-requests"
    /\ Len(partners["vendor"]) = 2
    /\ RequestsFor(requests, "vendor", 1) = {}
    /\ ~partners["vendor"][1].isApproved
    /\ partners["vendor"][2].isApproved

\* C28: between requests, a request of an approvable entityType whose
\* target exists is approved exactly when its target's isApproved is true.
C28_ApprovedIffFlag ==
    \A r \in DOMAIN requests :
       LET type == requests[r].entityType
           entityId == requests[r].entityId
       IN  (type \in ApprovableTypes /\ entityId \in DOMAIN partners[type])
              => (requests[r].status = "approved"
                     <=> partners[type][entityId].isApproved)

Pending(reqs) == {r \in DOMAIN reqs : reqs[r].status = "pending"}

\* C30: the decide route answers 400 and changes nothing for a status
\* other than approved or rejected; no request that has left pending is
\* pending again, and the pending requests grow only by the request of a
\* newly created entity.
C30_PendingOnlyShrinks ==
    [][/\ \A id \in 1 .. (Len(requests) + 1) :
             \A status \in DecisionInputs \ {"approved", "rejected"} :
                PutApprovalRequest(id, status)
                   => /\ resp'.status = "400"
                      /\ requests' = requests
                      /\ partners' = partners
       /\ \A r \in DOMAIN requests :
             r \notin Pending(requests) => r \notin Pending(requests')
       /\ Pending(requests') \subseteq Pending(requests)
             \/ /\ resp'.op = "POST /partner"
                /\ Pending(requests') =
                      Pending(requests) \cup {Len(requests) + 1}]_vars

\* C30 witness: a decision with a status other than approved or rejected
\* has just been turned down while a decided request exists, which is
\* still decided.
C30_Witness ==
    /\ resp.op = "PUT /approval-requests"
    /\ resp.status = "400"
    /\ \E r \in DOMAIN requests : requests[r].status \in Decided

----------------------------------------------------------------------------
(* SpecStockConc: creates and deletes of purchases and sales in flight at  *)
(* once, one store statement at a time                                     *)

TxKinds == {"purchase", "sale"}

NextStockConc ==
    \/ \E body \in ProductBodies : PostProduct(body)
    \/ \E p \in DOMAIN procs, kind \in TxKinds, items \in LedgerItemValues :
          BeginCreate(p, kind, items)
    \/ \E p \in DOMAIN procs, kind \in TxKinds :
          \E id \in DOMAIN (IF kind = "purchase" THEN purchases ELSE sales) :
             BeginDelete(p, kind, id)
    \/ \E p \in DOMAIN procs : WalkItem(p)
    \/ \E p \in DOMAIN procs : EndDelete(p)

SpecStockConc == Init /\ [][NextStockConc]_vars

\* C10: whatever the interleaving of the statements of concurrent creates
\* and deletes, once they have all completed each product's stock is its
\* initial stock plus the sum of the deltas of every walk: no update is
\* lost.
C10_NoLostStockUpdate ==
    AllIdle => \A p \in DOMAIN products :
                  products[p].stock = initialStock[p] + netDelta[p]

\* C10 witness: a purchase and a sale, both naming product 1, have been
\* walked and both deltas are in the stock.
C10_Witness ==
    /\ AllIdle
    /\ purchaseSeq = 1
    /\ saleSeq = 1
    /\ 1 \in DOMAIN products
    /\ 1 \in DOMAIN purchases
    /\ 1 \in DOMAIN sales
    /\ ItemsDelta(purchases[1].items, 1, PurchaseSign) > 0
    /\ ItemsDelta(sales[1].items, 1, SaleSign) < 0
    /\ products[1].stock = initialStock[1]
                           + ItemsDelta(purchases[1].items, 1, PurchaseSign)
                           + ItemsDelta(sales[1].items, 1, SaleSign)

\* C18: a delete of an existing purchase (sale) walks every stored line
\* item, applies to each the delta opposite to the one the create applied,
\* and removes the row only when the walk is over; when it answers true the
\* row is gone.
C18_DeleteRevertsThenRemoves ==
    [][\A p \in DOMAIN procs :
          /\ \A kind \in TxKinds :
                \A id \in DOMAIN (IF kind = "purchase" THEN purchases
                                                       ELSE sales) :
                   BeginDelete(p, kind, id)
                      => procs'[p].rest =
                            Elems((IF kind = "purchase" THEN purchases
                                                        ELSE sales)[id].items)
          /\ (procs[p].op = "delete" /\ WalkItem(p))
                => LET item == Head(procs[p].rest)
                   IN  products' =
                          updateProductStock(products, item.productId,
                             (-CreateSign(procs[p].kind)) * item.quantity)
          /\ (procs[p].op = "delete" /\ procs'[p].op # "delete")
                => LET id == procs[p].id
                       before == IF procs[p].kind = "purchase"
                                 THEN purchases ELSE sales
                       after == IF procs[p].kind = "purchase"
                                THEN purchases' ELSE sales'
                   IN  /\ procs[p].rest = <<>>
                       /\ id \notin DOMAIN after
                       /\ resp'.status = "true" <=> id \in DOMAIN before]_vars

\* C18 witness: a delete of the only purchase has walked all its items,
\* product 1 is back at its initial stock, and the row is still there.
C18_Witness ==
    \E p \in DOMAIN procs :
       /\ procs[p].op = "delete"
       /\ procs[p].kind = "purchase"
       /\ procs[p].rest = <<>>
       /\ procs[p].id \in DOMAIN purchases
       /\ purchaseSeq = 1
       /\ saleSeq = 0
       /\ 1 \in DOMAIN products
       /\ ItemsDelta(purchases[procs[p].id].items, 1, PurchaseSign) > 0
       /\ products[1].stock = initialStock[1]

\* C27: whatever deletes ran at once, the same id named twice included,
\* each transaction's deltas are reversed at most once: with no call in
\* flight every product's stock is its initial stock plus the line items of
\* the existing purchases minus those of the existing sales.
C27_ReversedAtMostOnce ==
    AllIdle => \A p \in DOMAIN products : products[p].stock = LedgerStock(p)

----------------------------------------------------------------------------
(* SpecTemplateConc: template creates and updates in flight at once        *)

NextTemplateConc ==
    \/ \E body \in {b \in TemplateBodies : ~wantsDefault(b)} :
          PostInvoiceTemplate(body)
    \/ \E id \in TemplateIds, patch \in {b \in TemplatePatches : ~wantsDefault(b)} :
          UpdateInvoiceTemplate(id, patch)
    \/ \E p \in DOMAIN procs, body \in TemplateBodies :
          ClearDefaultsStep(p, "createTemplate", 0,
                            insertInvoiceTemplateSchema(body))
    \/ \E p \in DOMAIN procs, id \in TemplateIds, patch \in TemplatePatches :
          ClearDefaultsStep(p, "updateTemplate", id, patch)
    \/ \E p \in DOMAIN procs : WriteTemplateStep(p)

SpecTemplateConc == Init /\ [][NextTemplateConc]_vars

\* C4: once every concurrent template create and update has completed, at
\* most one template row is the default.
C4_AtMostOneDefaultConcurrent ==
    AllIdle => Cardinality(Defaults(templates)) <= 1

----------------------------------------------------------------------------
(* SpecRequestStore: createApprovalRequest called with any object, a       *)
(* status key included, beside the decisions of PUT /approval-requests     *)

RequestEntityIds == {1, 2}

RequestInputs ==
    [entityType : {"vendor", "supplier"}, entityId : RequestEntityIds]
    \cup [entityType : {"vendor", "supplier"}, entityId : RequestEntityIds,
          status : DecisionInputs]

\* storage.createApprovalRequest(insertRequest)
CreateApprovalRequest(insertRequest) ==
    /\ Len(requests) < MaxRequests
    /\ requests' = createApprovalRequest(requests, insertRequest)
    /\ resp' = [op |-> "createApprovalRequest", status |-> "value",
                note |-> NoNotes, input |-> insertRequest]
    /\ UNCHANGED <<users, stockVars, templateVars, partners, procs>>

NextRequestStore ==
    \/ \E insertRequest \in RequestInputs :
          CreateApprovalRequest(insertRequest)
    \/ \E id \in 1 .. (Len(requests) + 1), status \in DecisionInputs :
          PutApprovalRequest(id, status)

SpecRequestStore == Init /\ [][NextRequestStore]_vars

\* C14: createApprovalRequest stores the new request with status pending
\* whatever status its input carries.
C14_CreatedRequestIsPending ==
    [][\A insertRequest \in RequestInputs :
          CreateApprovalRequest(insertRequest)
             => /\ Len(requests') = Len(requests) + 1
                /\ requests'[Len(requests')].status = "pending"
                /\ \A r \in DOMAIN requests : requests'[r] = requests[r]]_vars

\* C14 witness: the last call was createApprovalRequest with an input
\* carrying status approved, and the row it stored is pending.
C14_Witness ==
    /\ resp.op = "createApprovalRequest"
    /\ "status" \in DOMAIN resp.input
    /\ resp.input.status = "approved"
    /\ requests[Len(requests)].status = "pending"
    /\ requests[Len(requests)].entityId = resp.input.entityId

----------------------------------------------------------------------------
(* SpecAbsent: the storage methods that take an id, called with ids of     *)
(* existing and of missing rows                                            *)

\* storage.updateProductStock(id, change)
StorageUpdateProductStock(id, change) ==
    /\ products' = updateProductStock(products, id, change)
    /\ resp' = Answer("updateProductStock",
                      IF id \in DOMAIN products THEN "value" ELSE "undefined",
                      NoNotes)
    /\ UNCHANGED <<users, initialStock, netDelta, purchases, purchaseSeq, sales,
                   saleSeq, templates, partners, requests, procs>>

\* storage.deleteProduct(id): return !!product
StorageDeleteProduct(id) ==
    /\ products' = deleteProductRow(products, id)
    /\ resp' = Answer("deleteProduct",
                      IF id \in DOMAIN products THEN "true" ELSE "false",
                      NoNotes)
    /\ UNCHANGED <<users, initialStock, netDelta, purchases, purchaseSeq, sales,
                   saleSeq, templates, partners, requests, procs>>

\* storage.deleteSupplier(id): return !!supplier
StorageDeleteSupplier(id) ==
    /\ partners' = [partners EXCEPT !["supplier"] = deleteSupplierRow(@, id)]
    /\ resp' = Answer("deleteSupplier",
                      IF id \in DOMAIN partners["supplier"] THEN "true"
                                                            ELSE "false",
                      NoNotes)
    /\ UNCHANGED <<users, stockVars, templateVars, requests, procs>>

StoredRows == Len(products) + purchaseSeq + saleSeq + TotalPartners

ShortItemValues ==
    {JsonArray(<<>>)} \cup {JsonArray(<<it>>) : it \in ExistingItems}

UpdatablePartners == {"vendor", "supplier"}

PartnerIds(type) == 1 .. (Len(partners[type]) + 1)

RequestIds == 1 .. (Len(requests) + 1)

NextAbsent ==
    \/ \E body \in ProductBodies :
          StoredRows < MaxStoredRows /\ PostProduct(body)
    \/ \E type \in UpdatablePartners, body \in PartnerBodies :
          StoredRows < MaxStoredRows /\ PostPartner(type, body, TRUE)
    \/ \E items \in ShortItemValues :
          StoredRows < MaxStoredRows /\ CreatePurchase(items)
    \/ \E items \in ShortItemValues :
          StoredRows < MaxStoredRows /\ CreateSale(items)
    \/ \E id \in ProductIds, change \in PositiveQuantities :
          /\ id \in DOMAIN products => products[id].stock < MaxStock
          /\ StorageUpdateProductStock(id, change)
    \/ \E id \in ProductIds, body \in ProductPatches : PutProduct(id, body)
    \/ \E type \in UpdatablePartners : \E id \in PartnerIds(type) :
          \E body \in PartnerPatches : PutPartner(type, id, body)
    \/ \E id \in TxIds(purchaseSeq), patch \in TxPatches(ShortItemValues) :
          UpdatePurchase(id, patch)
    \/ \E id \in TxIds(saleSeq), patch \in TxPatches(ShortItemValues) :
          UpdateSale(id, patch)
    \/ \E id \in RequestIds, status \in Decided :
          PutApprovalRequest(id, status)
    \/ \E id \in ProductIds : StorageDeleteProduct(id)
    \/ \E id \in PartnerIds("supplier") : StorageDeleteSupplier(id)
    \/ \E id \in TxIds(purchaseSeq) : DeletePurchase(id)
    \/ \E id \in TxIds(saleSeq) : DeleteSale(id)

SpecAbsent == Init /\ [][NextAbsent]_vars

RowsUntouched ==
    /\ products' = products
    /\ purchases' = purchases
    /\ sales' = sales
    /\ templates' = templates
    /\ partners' = partners
    /\ requests' = requests
    /\ users' = users

AbsentResults == {"404", "false", "undefined"}

AnsweredAbsent == RowsUntouched /\ resp'.status \in AbsentResults

\* C16: updateProductStock, the update methods and the delete methods,
\* called with an id that names no row, answer an absent result (undefined
\* or false; 404 through their route) and leave every row of every table as
\* it was.
C16_MissingIdChangesNothing ==
    [][/\ \A id \in ProductIds \ DOMAIN products :
             /\ \A change \in PositiveQuantities :
                   StorageUpdateProductStock(id, change) => AnsweredAbsent
             /\ \A body \in ProductPatches :
                   PutProduct(id, body) => AnsweredAbsent
             /\ StorageDeleteProduct(id) => AnsweredAbsent
       /\ \A type \in UpdatablePartners :
             \A id \in PartnerIds(type) \ DOMAIN partners[type] :
                \A body \in PartnerPatches :
                   PutPartner(type, id, body) => AnsweredAbsent
       /\ \A id \in PartnerIds("supplier") \ DOMAIN partners["supplier"] :
             StorageDeleteSupplier(id) => AnsweredAbsent
       /\ \A id \in TxIds(purchaseSeq) \ DOMAIN purchases :
             /\ \A patch \in TxPatches(ShortItemValues) :
                   UpdatePurchase(id, patch) => AnsweredAbsent
             /\ DeletePurchase(id) => AnsweredAbsent
       /\ \A id \in TxIds(saleSeq) \ DOMAIN sales :
             /\ \A patch \in TxPatches(ShortItemValues) :
                   UpdateSale(id, patch) => AnsweredAbsent
             /\ DeleteSale(id) => AnsweredAbsent
       /\ \A id \in RequestIds \ DOMAIN requests : \A status \in Decided :
             PutApprovalRequest(id, status) => AnsweredAbsent]_vars

\* C16 witness: the purchase table holds no row with id 1 any more, a
\* product with stock exists, and the last call, a delete of a purchase
\* that does not exist, answered false.
C16_Witness ==
    /\ resp.op = "deletePurchase"
    /\ resp.status = "false"
    /\ purchaseSeq >= 1
    /\ purchases = NoRows
    /\ \E p \in DOMAIN products : products[p].stock # initialStock[p]

----------------------------------------------------------------------------
(* SpecRoutes: every route of the API that creates, updates or deletes,    *)
(* each request run to completion, with what it hands to notifyClients     *)

Usernames == {"ann", "bob"}

RegisterBodies == [username : Usernames]

\* getUserByUsername: select ... where username = :username
getUserByUsername(us, username) ==
    {i \in DOMAIN us : us[i].username = username}

\* createUser: insert {...insertUser, isActive: true}
createUserRow(us, insertUser) ==
    Append(us, [username |-> insertUser.username, isActive |-> TRUE])

\* POST /api/register: getUserByUsername, createUser, req.login, 201.
\* The handler does not call notifyClients.
PostRegister(body) ==
    /\ IF getUserByUsername(users, body.username) # {}
       THEN /\ UNCHANGED users
            /\ resp' = Answer("POST /api/register", "400", NoNotes)
       ELSE /\ users' = createUserRow(users, body)
            /\ resp' = Answer("POST /api/register", "201", NoNotes)
    /\ UNCHANGED <<stockVars, templateVars, approvalVars, procs>>

\* The routes that parse their body with a zod schema
ParsingRoutes ==
    {"POST /products", "PUT /products", "POST /partner", "PUT /partner",
     "createPurchase", "updatePurchase", "createSale", "updateSale",
     "createInvoiceTemplate"}

\* schema.parse(req.body) throws a ZodError: 400, before any storage call
InvalidBody(route) ==
    /\ resp' = Answer(route, "400", NoNotes)
    /\ UNCHANGED <<stockVars, templateVars, approvalVars, users, procs>>

RouteRows == StoredRows + Len(templates) + Len(users)

RoutePatches == {EmptyPatch, [stock |-> 3]}

NextRoutes ==
    \/ \E body \in ProductBodies :
          RouteRows < MaxStoredRows /\ PostProduct(body)
    \/ \E id \in ProductIds, body \in RoutePatches : PutProduct(id, body)
    \/ \E id \in ProductIds : DeleteProduct(id)
    \/ \E type \in EntityTypes, body \in PartnerBodies :
          \E requestStored \in BOOLEAN :
             RouteRows < MaxStoredRows /\ PostPartner(type, body, requestStored)
    \/ \E type \in UpdatablePartners : \E id \in PartnerIds(type) :
          \E body \in PartnerPatches : PutPartner(type, id, body)
    \/ \E id \in PartnerIds("supplier") : DeleteSupplier(id)
    \/ \E id \in RequestIds, status \in DecisionInputs :
          PutApprovalRequest(id, status)
    \/ \E items \in ShortItemValues :
          RouteRows < MaxStoredRows /\ CreatePurchase(items)
    \/ \E id \in TxIds(purchaseSeq), patch \in TxPatches(ShortItemValues) :
          UpdatePurchase(id, patch)
    \/ \E items \in ShortItemValues :
          RouteRows < MaxStoredRows /\ CreateSale(items)
    \/ \E id \in TxIds(saleSeq), patch \in TxPatches(ShortItemValues) :
          UpdateSale(id, patch)
    \/ \E body \in TemplateBodies :
          RouteRows < MaxStoredRows /\ PostInvoiceTemplate(body)
    \/ \E body \in RegisterBodies :
          RouteRows < MaxStoredRows /\ PostRegister(body)
    \/ \E route \in ParsingRoutes : InvalidBody(route)

SpecRoutes == Init /\ [][NextRoutes]_vars

SuccessStatuses == {"200", "201", "204"}

\* What a request must have handed to notifyClients: one notification of
\* this type and action when it answered with success, none otherwise
Notified(type, action) ==
    IF resp'.status \in SuccessStatuses
    THEN resp'.note = <<[type |-> type, action |-> action]>>
    ELSE resp'.note = <<>>

\* C17: every request that creates, updates or deletes an entity and
\* succeeds emits exactly one notification, of the entity's type and the
\* mutation's action, with the mutation already in the store; a request
\* that is rejected emits none.
C17_OneNotificationPerMutation ==
    [][/\ \A body \in ProductBodies :
             PostProduct(body)
                => Notified("product", "created")
                   /\ Len(products') = Len(products) + 1
       /\ \A id \in ProductIds :
             /\ \A body \in RoutePatches :
                   PutProduct(id, body) => Notified("product", "updated")
             /\ DeleteProduct(id)
                   => Notified("product", "deleted")
                      /\ (resp'.note # <<>> => ~products'[id].isActive)
       /\ \A type \in EntityTypes :
             \A body \in PartnerBodies : \A requestStored \in BOOLEAN :
                PostPartner(type, body, requestStored)
                   => Notified(type, "created")
                      /\ Len(partners'[type]) = Len(partners[type]) + 1
       /\ \A type \in UpdatablePartners :
             \A id \in PartnerIds(type) : \A body \in PartnerPatches :
                PutPartner(type, id, body) => Notified(type, "updated")
       /\ \A id \in PartnerIds("supplier") :
             DeleteSupplier(id)
                => Notified("supplier", "deleted")
                   /\ (resp'.note # <<>>
                          => ~partners'["supplier"][id].isActive)
       /\ \A id \in RequestIds : \A status \in DecisionInputs :
             PutApprovalRequest(id, status)
                => Notified("approvalRequest", "updated")
                   /\ (resp'.note # <<>> => requests'[id].status = status)
       /\ \A items \in ShortItemValues :
             /\ CreatePurchase(items)
                   => Notified("purchase", "created")
                      /\ purchaseSeq' \in DOMAIN purchases'
             /\ CreateSale(items)
                   => Notified("sale", "created")
                      /\ saleSeq' \in DOMAIN sales'
       /\ \A patch \in TxPatches(ShortItemValues) :
             /\ \A id \in TxIds(purchaseSeq) :
                   UpdatePurchase(id, patch)
                      => Notified("purchase", "updated")
             /\ \A id \in TxIds(saleSeq) :
                   UpdateSale(id, patch) => Notified("sale", "updated")
       /\ \A body \in TemplateBodies :
             PostInvoiceTemplate(body)
                => Notified("invoiceTemplate", "created")
                   /\ Len(templates') = Len(templates) + 1
       /\ \A body \in RegisterBodies :
             PostRegister(body)
                => Notified("user", "created")
       /\ \A route \in ParsingRoutes :
             InvalidBody(route) => resp'.note = <<>>]_vars

----------------------------------------------------------------------------
(* SpecStockFail: purchase and sale creation on a store that may fail any  *)
(* statement: the rejected await leaves createPurchase / createSale at     *)
(* once and the route answers 500                                          *)

\* The statements of a create that may fail: 0 is the insert, k >= 1 the
\* updateProductStock call of the k-th item (an item that fails the guard
\* issues no statement).
FailPoints(items) ==
    {0} \cup {k \in DOMAIN Elems(items) :
                 /\ Truthy(Elems(items)[k].productId)
                 /\ Truthy(Elems(items)[k].quantity)}

\* The walk cut short by the statement of item k throwing: the items before
\* it have been applied.
applyElemsBefore(prods, elems, sign, k) ==
    applyElems(prods, SubSeq(elems, 1, k - 1), sign)

\* POST /purchases, POST /sales with statement k failing: what was written
\* before it stays, nothing is undone, the route's catch answers 500
CreateTxFailing(kind, items, k) ==
    /\ purchaseSeq + saleSeq < MaxTx
    /\ k \in FailPoints(items)
    /\ IF k = 0
       THEN UNCHANGED <<products, purchases, purchaseSeq, sales, saleSeq>>
       ELSE /\ products' = applyElemsBefore(products, Elems(items),
                                            CreateSign(kind), k)
            /\ IF kind = "purchase"
               THEN /\ purchaseSeq' = purchaseSeq + 1
                    /\ purchases' = InsertRow(purchases, purchaseSeq + 1,
                                              [items |-> items])
                    /\ UNCHANGED <<sales, saleSeq>>
               ELSE /\ saleSeq' = saleSeq + 1
                    /\ sales' = InsertRow(sales, saleSeq + 1,
                                          [items |-> items])
                    /\ UNCHANGED <<purchases, purchaseSeq>>
    /\ resp' = Answer(IF kind = "purchase" THEN "createPurchase"
                                           ELSE "createSale",
                      "500", NoNotes)
    /\ UNCHANGED <<users, initialStock, netDelta, templateVars, approvalVars,
                   procs>>

NextStockFail ==
    \/ \E body \in ProductBodies : PostProduct(body)
    \/ \E items \in LedgerItemValues : CreatePurchase(items)
    \/ \E items \in LedgerItemValues : CreateSale(items)
    \/ \E kind \in {"purchase", "sale"}, items \in LedgerItemValues :
          \E k \in FailPoints(items) : CreateTxFailing(kind, items, k)

SpecStockFail == Init /\ [][NextStockFail]_vars

\* C21: a createPurchase or createSale that ends in a store failure leaves
\* the products, the purchases and the sales as they were before the call.
C21_FailedCreateLeavesNothing ==
    [][(/\ resp'.op \in {"createPurchase", "createSale"}
        /\ resp'.status = "500")
         => /\ products' = products
            /\ purchases' = purchases
            /\ sales' = sales]_vars

----------------------------------------------------------------------------
(* SpecApprovalConc: approval decisions in flight at once, one store       *)
(* statement at a time, beside partner creation                            *)

\* PUT /approval-requests/:id, up to and including updateApprovalRequest's
\* first statement: the update of the request row.  The call goes on to a
\* second statement when the decision approves and the switch has a case
\* for the row's entityType; otherwise it returns and the route answers.
DecideStatusStep(p, id, status) ==
    /\ IsIdle(p)
    /\ IF validDecision(status)
       THEN /\ requests' = updateRequestRow(requests, id, [status |-> status])
            /\ IF /\ approves(requests', id, [status |-> status])
                  /\ requests'[id].entityType \in ApprovableTypes
               THEN /\ procs' = [procs EXCEPT ![p] =
                                   [op |-> "decide", id |-> id,
                                    entityType |-> requests'[id].entityType,
                                    entityId |-> requests'[id].entityId]]
                    /\ UNCHANGED resp
               ELSE /\ UNCHANGED procs
                    /\ resp' = IF id \in DOMAIN requests
                               THEN Answer("PUT /approval-requests", "200",
                                           Notes("approvalRequest",
                                                 "updated"))
                               ELSE Answer("PUT /approval-requests", "404",
                                           NoNotes)
       ELSE /\ UNCHANGED <<requests, procs>>
            /\ resp' = Answer("PUT /approval-requests", "400", NoNotes)
    /\ UNCHANGED <<users, stockVars, templateVars, partners>>

\* updateApprovalRequest's second statement, the update of the entity row
\* named by the request row the first statement returned; then the route
\* notifies and answers.
ApproveEntityStep(p) ==
    /\ procs[p].op = "decide"
    /\ partners' = approveEntity(partners, procs[p].entityType,
                                 procs[p].entityId)
    /\ procs' = [procs EXCEPT ![p] = Idle]
    /\ resp' = Answer("PUT /approval-requests", "200",
                      Notes("approvalRequest", "updated"))
    /\ UNCHANGED <<users, stockVars, templateVars, requests>>

NextApprovalConc ==
    \/ \E type \in EntityTypes, body \in PartnerBodies :
          PostPartner(type, body, TRUE)
    \/ \E p \in DOMAIN procs, status \in DecisionInputs :
          \E id \in 1 .. (Len(requests) + 1) : DecideStatusStep(p, id, status)
    \/ \E p \in DOMAIN procs : ApproveEntityStep(p)

SpecApprovalConc == Init /\ [][NextApprovalConc]_vars

\* C23: in every state, between the statements of a decision included, a
\* request of an approvable entityType whose target exists is approved only
\* if its target's isApproved is true.
C23_ApprovedImpliesFlagAlways ==
    \A r \in DOMAIN requests :
       (/\ requests[r].entityType \in ApprovableTypes
        /\ requests[r].entityId \in DOMAIN partners[requests[r].entityType]
        /\ requests[r].status = "approved")
          => partners[requests[r].entityType][requests[r].entityId].isApproved

====
